---- MODULE Spec2Model ----
(***************************************************************************)
(* A model of dev_server.py: the polling tree watcher, the shared          *)
(* LiveReloadState (change_id guarded by a condition variable), the        *)
(* /__livereload event-stream handler, and the static/HTML request         *)
(* handlers with script injection.                                         *)
(*                                                                         *)
(* Bytes, file names and URL paths are sequences of one-character strings. *)
(* Four specifications share the variables:                                *)
(*   Spec      watcher + reload state + event-stream handlers              *)
(*   SpecLive  Spec with the threads scheduled fairly                      *)
(*   SpecWatch the watcher alone over a tree of several files              *)
(*   SpecHttp  GET/HEAD request handling over a small directory tree       *)
(***************************************************************************)
EXTENDS Integers, Sequences, FiniteSets, TLC

VARIABLES
    fs,         \* the served tree: path -> NoFile or [mtime, data, readable]
    clock,      \* filesystem time; every write stamps a fresh mtime
    wpc,        \* watcher thread: position in _watch_tree / bump
    prev,       \* _watch_tree: prev
    cur,        \* _watch_tree: cur (the last snapshot taken)
    ret,        \* value returned by the last completed bump()
    diffCycles, \* history: poll cycles whose snapshot differed from prev
    change_id,  \* LiveReloadState.change_id
    lock,       \* owner of LiveReloadState.cond's lock: "none", "watcher" or a handler
    waiters,    \* threads registered in cond and not yet notified
    hpc,        \* per handler: position in _handle_livereload
    last_id,    \* per handler: last_id
    changed,    \* per handler: changed
    expired,    \* per handler: the running wait_for is out of time
    payload,    \* per handler: payload
    stream,     \* per handler: the frames written to wfile, in order
    touched,    \* history, per handler: a file was written after it connected
    owed,       \* history, per handler: a poll found a change written after it connected
    bumped,     \* history, per handler: change_id was raised after last_id was first read
    missed,     \* history, per handler: bumps since last_id was last assigned
    gap,        \* history, per handler: bumps covered by the payload waiting to be written
    polled,     \* history: the clock at the watcher's first snapshot and at its last poll
    since,      \* history, per handler: bumps since it read its initial last-seen id
    cwd,        \* the process's working directory: "root" (the --root folder) or "other"
    log         \* the last exchanges served by do_GET / do_HEAD, oldest first

fsVars == <<fs, clock>>
watcherVars == <<wpc, prev, cur, ret, diffCycles>>
condVars == <<change_id, lock, waiters>>
handlerVars == <<hpc, last_id, changed, expired, payload, stream>>
histVars == <<touched, owed, bumped, missed, gap, polled, since>>
httpVars == <<cwd, log>>
vars == <<fsVars, watcherVars, condVars, handlerVars, histVars, httpVars>>

----------------------------------------------------------------------------
(* Bounds *)

MaxClock == 2       \* at most this many file writes in a run
MaxStream == 3      \* a connection accepts this many frames, then its writes fail

Handlers == {"h1", "h2"}

----------------------------------------------------------------------------
(* Bytes *)

LF == "\n"
BS == "\\"

Digit(d) == CASE d = 0 -> "0" [] d = 1 -> "1" [] d = 2 -> "2" [] d = 3 -> "3"
              [] d = 4 -> "4" [] d = 5 -> "5" [] d = 6 -> "6" [] d = 7 -> "7"
              [] d = 8 -> "8" [] d = 9 -> "9"

\* str(n) / f"{n}" for a non-negative integer: its decimal digits.
RECURSIVE Str(_)
Str(n) == IF n < 10 THEN <<Digit(n)>> ELSE Str(n \div 10) \o <<Digit(n % 10)>>

\* The three byte literals of _handle_livereload, as the source spells them: in a
\* non-raw bytes literal "\\n" is the two bytes backslash, n.
ConnectedBytes ==
    <<":", " ", "c", "o", "n", "n", "e", "c", "t", "e", "d", BS, "n", BS, "n">>
ReloadBytes(id) ==
    <<"e", "v", "e", "n", "t", ":", " ", "r", "e", "l", "o", "a", "d", BS, "n",
      "d", "a", "t", "a", ":", " ">> \o Str(id) \o <<BS, "n", BS, "n">>
PingBytes ==
    <<"e", "v", "e", "n", "t", ":", " ", "p", "i", "n", "g", BS, "n",
      "d", "a", "t", "a", ":", " ", "0", BS, "n", BS, "n">>

\* INJECT_MARKER
INJECT_MARKER ==
    <<"_", "_", "d", "e", "v", "_", "s", "e", "r", "v", "e", "r", "_",
      "i", "n", "j", "e", "c", "t", "e", "d", "_", "_">>

\* The JavaScript of INJECT_SNIPPET between `<script id="...">` LF and `</script>`:
\* SnippetBodyLen bytes holding neither the marker nor a closing body tag in any
\* case, kept as one element of the sequence.
JsBody == "(() => { ... })();"
SnippetBodyLen == 3727

\* The body send_error(404, "File not found") writes, kept as one element.
NotFoundPage == "<404 page>"
NotFoundPageLen == 335

\* INJECT_SNIPPET
INJECT_SNIPPET ==
    <<LF, "<", "s", "c", "r", "i", "p", "t", " ", "i", "d", "=", "\"">>
        \o INJECT_MARKER \o <<"\"", ">", LF>> \o <<JsBody>>
        \o <<"<", "/", "s", "c", "r", "i", "p", "t", ">", LF>>

\* len(data)
ByteLen(d) ==
    Len(d) + (SnippetBodyLen - 1) * Cardinality({i \in 1..Len(d) : d[i] = JsBody})
           + (NotFoundPageLen - 1) * Cardinality({i \in 1..Len(d) : d[i] = NotFoundPage})

\* `needle in hay`, hay.count(needle) > 0
Occurrences(needle, hay) ==
    {i \in 1..(Len(hay) - Len(needle) + 1) : SubSeq(hay, i, i + Len(needle) - 1) = needle}

Contains(needle, hay) == Occurrences(needle, hay) # {}

\* A faulty search: the first occurrence.
find(hay, needle) ==
    IF Contains(needle, hay)
        THEN (CHOOSE i \in Occurrences(needle, hay) :
                \A j \in Occurrences(needle, hay) : i <= j) - 1
        ELSE 0 - 1

\* hay.rfind(needle): the 0-based index of the last occurrence, or -1.
rfind(hay, needle) ==
    IF Contains(needle, hay)
        THEN (CHOOSE i \in Occurrences(needle, hay) :
                \A j \in Occurrences(needle, hay) : j <= i) - 1
        ELSE 0 - 1

UpperCase ==
    <<"A", "B", "C", "D", "E", "F", "G", "H", "I", "J", "K", "L", "M",
      "N", "O", "P", "Q", "R", "S", "T", "U", "V", "W", "X", "Y", "Z">>
LowerCase ==
    <<"a", "b", "c", "d", "e", "f", "g", "h", "i", "j", "k", "l", "m",
      "n", "o", "p", "q", "r", "s", "t", "u", "v", "w", "x", "y", "z">>

\* bytes.lower() / str.lower() on ASCII
lower(d) ==
    [i \in 1..Len(d) |->
        IF \E k \in 1..26 : UpperCase[k] = d[i]
            THEN LowerCase[CHOOSE k \in 1..26 : UpperCase[k] = d[i]]
            ELSE d[i]]

\* int(text) for a string of decimal digits
RECURSIVE ParseInt(_)
ParseInt(t) ==
    IF t = << >> THEN 0
    ELSE 10 * ParseInt(SubSeq(t, 1, Len(t) - 1))
            + (CHOOSE d \in 0..9 : Digit(d) = t[Len(t)])

----------------------------------------------------------------------------
(* The filesystem and _snapshot_tree *)

NoFile == [mtime |-> 0 - 1, data |-> <<>>, readable |-> FALSE]

Exists(f, p) == f[p] # NoFile

\* A directory entry whose stat fails with an OSError other than FileNotFoundError:
\* a symbolic link that points to itself (ELOOP).  os.walk lists it among the files.
SymlinkLoop == [mtime |-> 0 - 2, data |-> <<>>, readable |-> FALSE]

\* File and directory names.
N_index_html == <<"i", "n", "d", "e", "x", ".", "h", "t", "m", "l">>
N_index_htm == <<"i", "n", "d", "e", "x", ".", "h", "t", "m">>
N_sub == <<"s", "u", "b">>
N_page_HTML == <<"p", "a", "g", "e", ".", "H", "T", "M", "L">>
N_notes_txt == <<"n", "o", "t", "e", "s", ".", "t", "x", "t">>
N_css == <<"c", "s", "s">>
N_site_css == <<"s", "i", "t", "e", ".", "c", "s", "s">>
N_git == <<".", "g", "i", "t">>
N_HEAD == <<"H", "E", "A", "D">>
N_refs == <<"r", "e", "f", "s">>
N_DS_Store == <<".", "D", "S", "_", "S", "t", "o", "r", "e">>
N_recording_mov == <<"r", "e", "c", "o", "r", "d", "i", "n", "g", ".", "m", "o", "v">>

\* A faulty pruning: only at the top of the tree.
PrunedAtTop(p) == Len(p) > 1 /\ p[1] \in {N_git, N_refs}

\* os.walk prunes a directory named .git or refs before descending into it.
PrunedDirs == {N_git, N_refs}
Pruned(p) == \E i \in 1..(Len(p) - 1) : p[i] \in PrunedDirs

\* File names the loop skips.
SkippedFile(p) == p[Len(p)] \in {N_DS_Store} \/ p[Len(p)] = N_recording_mov

Watched(p) == ~Pruned(p) /\ ~SkippedFile(p)

\* path -> (st_mtime_ns, st_size) for every file the walk reaches and keeps.
snapshot_tree(f) ==
    [p \in {q \in DOMAIN f : Exists(f, q) /\ Watched(q)} |->
        <<f[p].mtime, ByteLen(f[p].data)>>]

\* p.stat() raises something the `except FileNotFoundError` does not catch: the
\* exception leaves _snapshot_tree.  Skipped names and pruned directories are
\* passed over before stat is called.
stat_raises(f) == \E p \in DOMAIN f : Watched(p) /\ f[p] = SymlinkLoop

\* The tree of Spec: one watched file.
ReloadPaths == {<<N_index_html>>}

\* A process outside the server writes a file: new bytes, a fresh mtime.
WriteFile(p, d) ==
    /\ clock < MaxClock
    /\ Exists(fs, p)
    /\ clock' = clock + 1
    /\ fs' = [fs EXCEPT ![p] = [mtime |-> clock + 1, data |-> d, readable |-> @.readable]]
    /\ touched' = [h \in Handlers |-> touched[h] \/ hpc[h] \notin {"start", "done"}]
    /\ UNCHANGED <<watcherVars, condVars, handlerVars, owed, bumped, missed, gap, polled,
                   since, httpVars>>

\* A process outside the server removes a file.
DeleteFile(p) ==
    /\ clock < MaxClock
    /\ Exists(fs, p)
    /\ clock' = clock + 1
    /\ fs' = [fs EXCEPT ![p] = NoFile]
    /\ touched' = [h \in Handlers |-> touched[h] \/ hpc[h] \notin {"start", "done"}]
    /\ UNCHANGED <<watcherVars, condVars, handlerVars, owed, bumped, missed, gap, polled,
                   since, httpVars>>

\* A process outside the server replaces a file by a link to itself.
LinkLoop(p) ==
    /\ clock < MaxClock
    /\ Exists(fs, p)
    /\ fs[p] # SymlinkLoop
    /\ clock' = clock + 1
    /\ fs' = [fs EXCEPT ![p] = SymlinkLoop]
    /\ touched' = [h \in Handlers |-> touched[h] \/ hpc[h] \notin {"start", "done"}]
    /\ UNCHANGED <<watcherVars, condVars, handlerVars, owed, bumped, missed, gap, polled,
                   since, httpVars>>

\* A process outside the server creates a file that was not there.
CreateFile(p) ==
    /\ clock < MaxClock
    /\ ~Exists(fs, p)
    /\ clock' = clock + 1
    /\ fs' = [fs EXCEPT ![p] = [mtime |-> clock + 1, data |-> <<"a">>, readable |-> TRUE]]
    /\ touched' = [h \in Handlers |-> touched[h] \/ hpc[h] \notin {"start", "done"}]
    /\ UNCHANGED <<watcherVars, condVars, handlerVars, owed, bumped, missed, gap, polled,
                   since, httpVars>>

----------------------------------------------------------------------------
(* _watch_tree and LiveReloadState.bump *)

\* prev = _snapshot_tree(root), once, when the thread starts.
\* An exception out of _snapshot_tree is caught nowhere: the thread ends.
WatchStart ==
    /\ wpc = "init"
    /\ IF stat_raises(fs)
          THEN /\ wpc' = "dead"
               /\ UNCHANGED <<prev, cur, polled>>
          ELSE /\ prev' = snapshot_tree(fs)
               /\ cur' = prev'
               /\ wpc' = "sleep"
               /\ polled' = <<clock, 0 - 1>>
    /\ UNCHANGED <<fsVars, ret, diffCycles, condVars, handlerVars, touched, owed, bumped,
                   missed, gap, since, httpVars>>

\* A faulty store: the previous snapshot is kept.
StoreNothing(c) == prev

\* `prev = cur` after a difference.
StoreSnapshot(c) == c

\* One pass of the loop up to the call of bump: sleep, snapshot, compare, store.
\* An exception out of _snapshot_tree ends the loop and the thread.
Poll ==
    /\ wpc = "sleep"
    /\ IF stat_raises(fs)
          THEN /\ wpc' = "dead"
               /\ UNCHANGED <<prev, cur, diffCycles, owed, polled>>
          ELSE /\ cur' = snapshot_tree(fs)
               /\ IF cur' # prev
                     THEN /\ prev' = StoreSnapshot(cur')
                          /\ diffCycles' = diffCycles + 1
                          /\ wpc' = "bump_acquire"
                     ELSE /\ UNCHANGED <<prev, diffCycles, wpc>>
               /\ owed' = [h \in Handlers |-> owed[h] \/ (touched[h] /\ cur' # prev)]
               /\ polled' = <<polled[1], clock>>
    /\ UNCHANGED <<fsVars, ret, condVars, handlerVars, touched, bumped, missed, gap,
                   since, httpVars>>

\* bump: `with self.cond:` takes the lock.
BumpAcquire ==
    /\ wpc = "bump_acquire"
    /\ lock = "none"
    /\ lock' = "watcher"
    /\ wpc' = "bump_inc"
    /\ UNCHANGED <<fsVars, prev, cur, ret, diffCycles, change_id, waiters, handlerVars,
                   histVars, httpVars>>

\* A faulty increment.
IncrementTwice == change_id + 2

\* `self.change_id += 1`
Increment == change_id + 1

\* bump: self.change_id += 1
BumpInc ==
    /\ wpc = "bump_inc"
    /\ change_id' = Increment
    /\ bumped' = [h \in Handlers |->
                    bumped[h] \/ hpc[h] \notin {"start", "read_id", "done"}]
    /\ missed' = [h \in Handlers |->
                    IF hpc[h] \in {"start", "read_id", "done"} THEN 0 ELSE missed[h] + 1]
    /\ since' = [h \in Handlers |->
                   IF hpc[h] \in {"start", "read_id", "done"} THEN 0 ELSE since[h] + 1]
    /\ wpc' = "bump_notify"
    /\ UNCHANGED <<fsVars, prev, cur, ret, diffCycles, lock, waiters, handlerVars,
                   touched, owed, gap, polled, httpVars>>

\* A faulty wake-up: nobody is notified.
notify_none == waiters

\* The registered waiters left blocked by notify_all: none.
notify_all == {}

\* bump: self.cond.notify_all() wakes every registered waiter.
BumpNotify ==
    /\ wpc = "bump_notify"
    /\ waiters' = notify_all
    /\ wpc' = "bump_return"
    /\ UNCHANGED <<fsVars, prev, cur, ret, diffCycles, change_id, lock, handlerVars,
                   histVars, httpVars>>

\* bump: return self.change_id, leaving the `with` block.
BumpReturn ==
    /\ wpc = "bump_return"
    /\ ret' = change_id
    /\ lock' = "none"
    /\ wpc' = "sleep"
    /\ UNCHANGED <<fsVars, prev, cur, diffCycles, change_id, waiters, handlerVars,
                   histVars, httpVars>>

----------------------------------------------------------------------------
(* DevHandler._handle_livereload *)

NoPayload == [kind |-> "none", id |-> 0, bytes |-> <<>>]
CommentFrame == [kind |-> "comment", id |-> 0, bytes |-> ConnectedBytes]
ReloadFrame(id) == [kind |-> "reload", id |-> id, bytes |-> ReloadBytes(id)]
PingFrame == [kind |-> "ping", id |-> 0, bytes |-> PingBytes]

\* A faulty predicate: always true.
always_changed(h) == TRUE

\* The predicate given to wait_for.
predicate(h) == change_id # last_id[h]

\* The response headers and the initial comment; a failed write ends the handler.
Connect(h) ==
    /\ hpc[h] = "start"
    /\ \/ /\ stream' = [stream EXCEPT ![h] = <<CommentFrame>>]
          /\ hpc' = [hpc EXCEPT ![h] = "read_id"]
       \/ /\ hpc' = [hpc EXCEPT ![h] = "done"]
          /\ UNCHANGED stream
    /\ UNCHANGED <<fsVars, watcherVars, condVars, last_id, changed, expired, payload,
                   histVars, httpVars>>

\* last_id = self.server.state.change_id, read without taking the lock.
ReadId(h) ==
    /\ hpc[h] = "read_id"
    /\ last_id' = [last_id EXCEPT ![h] = change_id]
    /\ hpc' = [hpc EXCEPT ![h] = "acquire"]
    /\ UNCHANGED <<fsVars, watcherVars, condVars, changed, expired, payload, stream,
                   histVars, httpVars>>

\* `with self.server.state.cond:` takes the lock; wait_for starts its clock.
Acquire(h) ==
    /\ hpc[h] = "acquire"
    /\ lock = "none"
    /\ lock' = h
    /\ hpc' = [hpc EXCEPT ![h] = "locked"]
    /\ UNCHANGED <<fsVars, watcherVars, change_id, waiters, last_id, changed, expired,
                   payload, stream, histVars, httpVars>>

\* wait_for, holding the lock, finds the predicate false and time left: cond.wait
\* registers the thread as a waiter and releases the lock.
WaitBlock(h) ==
    /\ hpc[h] = "locked"
    /\ ~predicate(h)
    /\ ~expired[h]
    /\ waiters' = waiters \cup {h}
    /\ lock' = "none"
    /\ hpc' = [hpc EXCEPT ![h] = "waiting"]
    /\ UNCHANGED <<fsVars, watcherVars, change_id, last_id, changed, expired, payload,
                   stream, histVars, httpVars>>

\* The 15 s run out while the thread is blocked in cond.wait.
Timeout(h) ==
    /\ hpc[h] = "waiting"
    /\ h \in waiters
    /\ ~expired[h]
    /\ expired' = [expired EXCEPT ![h] = TRUE]
    /\ UNCHANGED <<fsVars, watcherVars, condVars, hpc, last_id, changed, payload, stream,
                   histVars, httpVars>>

\* cond.wait returns (notified or timed out): it takes the lock again and drops
\* its own registration.
Reacquire(h) ==
    /\ hpc[h] = "waiting"
    /\ h \notin waiters \/ expired[h]
    /\ lock = "none"
    /\ lock' = h
    /\ waiters' = waiters \ {h}
    /\ hpc' = [hpc EXCEPT ![h] = "locked"]
    /\ UNCHANGED <<fsVars, watcherVars, change_id, last_id, changed, expired, payload,
                   stream, histVars, httpVars>>

\* A faulty result: a timeout is taken for a change.
wait_for_truthy(h) == TRUE

\* What wait_for returns: the predicate's value when it stops waiting.
wait_for(h) == predicate(h)

\* A faulty update: one id at a time.
NextId(h) == last_id[h] + 1

\* `last_id = self.server.state.change_id` after a change.
LatestId(h) == change_id

\* A faulty exit: the `with` block is not left before the write.
WaitReturnHoldingLock(h) ==
    /\ hpc[h] = "locked"
    /\ predicate(h) \/ expired[h]
    /\ changed' = [changed EXCEPT ![h] = wait_for(h)]
    /\ IF changed'[h]
          THEN /\ last_id' = [last_id EXCEPT ![h] = LatestId(h)]
               /\ payload' = [payload EXCEPT ![h] = ReloadFrame(last_id'[h])]
          ELSE /\ payload' = [payload EXCEPT ![h] = PingFrame]
               /\ UNCHANGED last_id
    /\ expired' = [expired EXCEPT ![h] = FALSE]
    /\ gap' = [gap EXCEPT ![h] = missed[h]]
    /\ missed' = [missed EXCEPT ![h] = 0]
    /\ hpc' = [hpc EXCEPT ![h] = "write"]
    /\ UNCHANGED <<fsVars, watcherVars, condVars, stream, touched, owed, bumped, polled,
                   since, httpVars>>

\* wait_for returns, holding the lock: True when the predicate holds, False when the
\* time ran out with the predicate false.  The payload is built and the `with`
\* block left.
WaitReturn(h) ==
    /\ hpc[h] = "locked"
    /\ predicate(h) \/ expired[h]
    /\ changed' = [changed EXCEPT ![h] = wait_for(h)]
    /\ IF changed'[h]
          THEN /\ last_id' = [last_id EXCEPT ![h] = LatestId(h)]
               /\ payload' = [payload EXCEPT ![h] = ReloadFrame(last_id'[h])]
          ELSE /\ payload' = [payload EXCEPT ![h] = PingFrame]
               /\ UNCHANGED last_id
    /\ expired' = [expired EXCEPT ![h] = FALSE]
    /\ gap' = [gap EXCEPT ![h] = missed[h]]
    /\ missed' = [missed EXCEPT ![h] = 0]
    /\ lock' = "none"
    /\ hpc' = [hpc EXCEPT ![h] = "write"]
    /\ UNCHANGED <<fsVars, watcherVars, change_id, waiters, stream, touched, owed,
                   bumped, polled, since, httpVars>>

\* A faulty failure: the exception of a failed write is not contained and ends
\* every connection.
WriteFatal(h) ==
    /\ hpc[h] = "write"
    /\ \/ /\ Len(stream[h]) < MaxStream
          /\ stream' = [stream EXCEPT ![h] = Append(@, payload[h])]
          /\ hpc' = [hpc EXCEPT ![h] = "acquire"]
          /\ UNCHANGED <<last_id, changed, payload, missed, since>>
       \/ /\ hpc' = [g \in Handlers |-> "done"]
          /\ last_id' = [last_id EXCEPT ![h] = 0]
          /\ changed' = [changed EXCEPT ![h] = FALSE]
          /\ payload' = [payload EXCEPT ![h] = NoPayload]
          /\ missed' = [missed EXCEPT ![h] = 0]
          /\ since' = [since EXCEPT ![h] = 0]
          /\ UNCHANGED stream
    /\ gap' = [gap EXCEPT ![h] = 0]
    /\ UNCHANGED <<fsVars, watcherVars, condVars, expired, touched, owed, bumped,
                   polled, httpVars>>

\* self.wfile.write(payload); flush -- or the write fails and the loop breaks: the
\* handler returns and its locals are gone.
Write(h) ==
    /\ hpc[h] = "write"
    /\ \/ /\ Len(stream[h]) < MaxStream
          /\ stream' = [stream EXCEPT ![h] = Append(@, payload[h])]
          /\ hpc' = [hpc EXCEPT ![h] = "acquire"]
          /\ UNCHANGED <<last_id, changed, payload, missed, since>>
       \/ /\ hpc' = [hpc EXCEPT ![h] = "done"]
          /\ last_id' = [last_id EXCEPT ![h] = 0]
          /\ changed' = [changed EXCEPT ![h] = FALSE]
          /\ payload' = [payload EXCEPT ![h] = NoPayload]
          /\ missed' = [missed EXCEPT ![h] = 0]
          /\ since' = [since EXCEPT ![h] = 0]
          /\ UNCHANGED stream
    /\ gap' = [gap EXCEPT ![h] = 0]
    /\ UNCHANGED <<fsVars, watcherVars, condVars, expired, touched, owed, bumped,
                   polled, httpVars>>

----------------------------------------------------------------------------
(* Spec: watcher, reload state, event-stream handlers *)

InitReload ==
    /\ wpc = "init"
    /\ prev = << >>
    /\ cur = << >>
    /\ ret = 0
    /\ diffCycles = 0
    /\ change_id = 0
    /\ lock = "none"
    /\ waiters = {}
    /\ hpc = [h \in Handlers |-> "start"]
    /\ last_id = [h \in Handlers |-> 0]
    /\ changed = [h \in Handlers |-> FALSE]
    /\ expired = [h \in Handlers |-> FALSE]
    /\ payload = [h \in Handlers |-> NoPayload]
    /\ stream = [h \in Handlers |-> << >>]
    /\ touched = [h \in Handlers |-> FALSE]
    /\ owed = [h \in Handlers |-> FALSE]
    /\ bumped = [h \in Handlers |-> FALSE]
    /\ missed = [h \in Handlers |-> 0]
    /\ gap = [h \in Handlers |-> 0]
    /\ polled = <<0 - 1, 0 - 1>>
    /\ since = [h \in Handlers |-> 0]

InitHttpIdle ==
    /\ cwd = "root"
    /\ log = << >>

InitFile == [mtime |-> 0, data |-> <<"a">>, readable |-> TRUE]

Init ==
    /\ fs = [p \in ReloadPaths |-> InitFile]
    /\ clock = 0
    /\ InitReload
    /\ InitHttpIdle

Watcher ==
    \/ WatchStart
    \/ Poll
    \/ BumpAcquire
    \/ BumpInc
    \/ BumpNotify
    \/ BumpReturn

Next ==
    \/ \E p \in ReloadPaths : WriteFile(p, Append(fs[p].data, "a"))
    \/ Watcher
    \/ \E h \in Handlers : Connect(h)
    \/ \E h \in Handlers : ReadId(h)
    \/ \E h \in Handlers : Acquire(h)
    \/ \E h \in Handlers : WaitBlock(h)
    \/ \E h \in Handlers : Timeout(h)
    \/ \E h \in Handlers : Reacquire(h)
    \/ \E h \in Handlers : WaitReturn(h)
    \/ \E h \in Handlers : Write(h)

Spec == Init /\ [][Next]_vars

\* Spec with the threads scheduled: the watcher thread and every handler thread
\* keep running while they have a step to take.  A wait's timeout and a failing
\* write are left to chance.
Fairness ==
    /\ WF_vars(Watcher)
    /\ \A h \in Handlers :
        /\ WF_vars(ReadId(h))
        /\ WF_vars(Acquire(h))
        /\ WF_vars(WaitBlock(h))
        /\ WF_vars(Reacquire(h))
        /\ WF_vars(WaitReturn(h))
        /\ WF_vars(Write(h))

SpecLive == Spec /\ Fairness

----------------------------------------------------------------------------
(* SpecWatch: the watcher alone over a tree with two watched files, files    *)
(* under pruned directories at the top and below it, and files with skipped *)
(* names; files are written, removed and created.  No connection is opened. *)

WatchPaths ==
    {<<N_index_html>>, <<N_css, N_site_css>>, <<N_git, N_HEAD>>,
     <<N_sub, N_refs, N_index_html>>, <<N_css, N_DS_Store>>, <<N_recording_mov>>}

InitWatch ==
    /\ fs = [p \in WatchPaths |-> InitFile]
    /\ clock = 0
    /\ InitReload
    /\ InitHttpIdle

NextWatch ==
    \/ \E p \in WatchPaths : fs[p] # SymlinkLoop /\ WriteFile(p, Append(fs[p].data, "a"))
    \/ \E p \in WatchPaths : DeleteFile(p)
    \/ \E p \in WatchPaths : LinkLoop(p)
    \/ \E p \in WatchPaths : CreateFile(p)
    \/ Watcher

SpecWatch == InitWatch /\ [][NextWatch]_vars

----------------------------------------------------------------------------
(* DevHandler.do_GET, do_HEAD and _serve_html *)

\* URL paths of the requests.
U_root == <<"/">>
U_index_html == <<"/">> \o N_index_html
U_sub == <<"/">> \o N_sub
U_sub_slash == <<"/">> \o N_sub \o <<"/">>
U_page_HTML == <<"/">> \o N_page_HTML
U_notes_txt == <<"/">> \o N_notes_txt
U_livereload == <<"/", "_", "_", "l", "i", "v", "e", "r", "e", "l", "o", "a", "d">>

\* Documents on disk.
CloseBody == <<"<", "/", "b", "o", "d", "y", ">">>
HiDoc == <<"<", "b", "o", "d", "y", ">", "H", "i">> \o CloseBody
PlainDoc == <<"H", "i">>
UpperDoc ==
    <<"<", "B", "O", "D", "Y", ">", "x", "<", "/", "B", "O", "D", "Y", ">", "t", "a", "i", "l">>
TwoBodiesDoc == CloseBody \o <<"x">> \o CloseBody
TwiceDoc == <<"<", "p", ">">> \o INJECT_MARKER \o <<" ">> \o INJECT_MARKER \o CloseBody

File(d) == [mtime |-> 0, data |-> d, readable |-> TRUE]
Unreadable(d) == [mtime |-> 0, data |-> d, readable |-> FALSE]

\* The --root folder of SpecHttp: its directories are fixed, its files vary.
RootDirs == {<< >>, <<N_sub>>}
HttpTrees ==
    {[p \in {<<N_index_html>>, <<N_index_htm>>, <<N_sub, N_index_htm>>,
             <<N_page_HTML>>, <<N_notes_txt>>} |->
        CASE p = <<N_index_html>> -> a
          [] p = <<N_index_htm>> -> b
          [] p = <<N_sub, N_index_htm>> -> c
          [] p = <<N_page_HTML>> -> d
          [] OTHER -> File(<<"t">>)] :
        a \in {NoFile, File(HiDoc), File(TwiceDoc)},
        b \in {NoFile, File(UpperDoc)},
        c \in {File(TwoBodiesDoc)},
        d \in {File(PlainDoc), Unreadable(PlainDoc)}}

\* The folder a handler resolves paths against.  main() assigns the class attribute
\* DevHandler.directory, but SimpleHTTPRequestHandler.__init__ sets the instance
\* attribute of every handler to os.getcwd() when no directory argument is passed,
\* so translate_path resolves against the working directory: the --root folder
\* only when the server was started from it.  Any other folder is taken as empty.
directory ==
    IF cwd = "root"
        THEN [files |-> fs, dirs |-> RootDirs]
        ELSE [files |-> << >>, dirs |-> {<< >>}]

is_dir(p) == p \in directory.dirs
is_file(p) == p \in DOMAIN directory.files /\ directory.files[p] # NoFile

\* path.split("/") with the empty words dropped
RECURSIVE Words(_)
Words(u) ==
    IF u = << >> THEN << >>
    ELSE IF Head(u) = "/" THEN Words(Tail(u))
    ELSE LET n == IF \E i \in 1..Len(u) : u[i] = "/"
                     THEN (CHOOSE i \in 1..Len(u) :
                             u[i] = "/" /\ \A j \in 1..(i - 1) : u[j] # "/") - 1
                     ELSE Len(u)
         IN <<SubSeq(u, 1, n)>> \o Words(SubSeq(u, n + 1, Len(u)))

\* Path(self.translate_path(parsed.path)), relative to the folder served: the words
\* of the path without "." and "..".
translate_path(u) == SelectSeq(Words(u), LAMBDA w : w # <<".">> /\ w # <<".", ".">>)

endswith_slash(u) == u # << >> /\ u[Len(u)] = "/"

\* PurePath.suffix of the last component
suffix(p) ==
    IF p = << >> THEN << >>
    ELSE LET name == p[Len(p)]
             i == rfind(name, <<".">>)
         IN IF 0 < i /\ i < Len(name) - 1 THEN SubSeq(name, i + 1, Len(name)) ELSE << >>

HtmlSuffixes == {<<".", "h", "t", "m", "l">>, <<".", "h", "t", "m">>}

Header(name, value) == <<name, value>>

\* self.send_error(404, "File not found"): no body on HEAD.
send_error_404(head_only) ==
    [status |-> 404,
     headers |-> <<Header("Content-Type", "text/html;charset=utf-8"),
                   Header("Content-Length", Str(ByteLen(<<NotFoundPage>>))),
                   Header("Connection", "close")>>,
     body |-> IF head_only THEN << >> ELSE <<NotFoundPage>>,
     via |-> "send_error"]

\* A faulty injection: the marker is not looked for.
inject_always(data) ==
    LET idx == rfind(lower(data), CloseBody)
    IN IF idx # 0 - 1
          THEN SubSeq(data, 1, idx) \o INJECT_SNIPPET \o SubSeq(data, idx + 1, Len(data))
          ELSE data \o INJECT_SNIPPET

\* _serve_html: the bytes to send for the bytes read.
inject(data) ==
    IF ~Contains(INJECT_MARKER, data)
        THEN LET idx == rfind(lower(data), CloseBody)
             IN IF idx # 0 - 1
                   THEN SubSeq(data, 1, idx) \o INJECT_SNIPPET
                            \o SubSeq(data, idx + 1, Len(data))
                   ELSE data \o INJECT_SNIPPET
        ELSE data

\* A faulty length: on HEAD, the size of the file as read.
content_length_of_file(file_path, data, head_only) ==
    IF head_only THEN ByteLen(directory.files[file_path].data) ELSE ByteLen(data)

\* str(len(data)) is computed from the bytes after injection, for GET and HEAD alike.
content_length(file_path, data, head_only) == ByteLen(data)

serve_html(file_path, head_only) ==
    IF ~directory.files[file_path].readable
        THEN send_error_404(head_only)
        ELSE LET data == inject(directory.files[file_path].data)
             IN [status |-> 200,
                 headers |-> <<Header("Content-Type", "text/html; charset=utf-8"),
                               Header("Cache-Control", "no-cache"),
                               Header("Content-Length",
                                      Str(content_length(file_path, data, head_only)))>>,
                 body |-> IF head_only THEN << >> ELSE data,
                 via |-> "serve_html"]

\* send_response(301) with Location: parsed.path + "/"
redirect(u) ==
    [status |-> 301,
     headers |-> <<Header("Location", u \o <<"/">>)>>,
     body |-> << >>,
     via |-> "redirect"]

\* super().do_GET() / super().do_HEAD(): the directory listing for a folder, the
\* file's bytes for a readable file, 404 otherwise.  Only what the caller's branch
\* can reach is kept; the headers of the base class are left out.
super_do(u, head_only) ==
    LET local == translate_path(u)
    IN IF is_dir(local)
          THEN [status |-> 200, headers |-> << >>,
                body |-> IF head_only THEN << >> ELSE <<"<directory listing>">>,
                via |-> "listing"]
       ELSE IF is_file(local) /\ directory.files[local].readable /\ ~endswith_slash(u)
          THEN [status |-> 200, headers |-> << >>,
                body |-> IF head_only THEN << >> ELSE directory.files[local].data,
                via |-> "static"]
       ELSE [status |-> 404, headers |-> << >>,
             body |-> IF head_only THEN << >> ELSE <<NotFoundPage>>,
             via |-> "static"]

\* A faulty order of the index names.
IndexNamesReversed == <<N_index_htm, N_index_html>>

\* ("index.html", "index.htm"), in the order the loop tries them.
IndexNames == <<N_index_html, N_index_htm>>

\* for index in ("index.html", "index.htm"): the first one that is a file, or 0.
first_index(local) ==
    IF \E i \in 1..Len(IndexNames) : is_file(local \o <<IndexNames[i]>>)
        THEN CHOOSE i \in 1..Len(IndexNames) :
                /\ is_file(local \o <<IndexNames[i]>>)
                /\ \A j \in 1..(i - 1) : ~is_file(local \o <<IndexNames[j]>>)
        ELSE 0

\* The response headers of _handle_livereload; the stream itself is Spec's subject.
livereload_opened ==
    [status |-> 200,
     headers |-> <<Header("Content-Type", "text/event-stream"),
                   Header("Cache-Control", "no-cache"),
                   Header("Connection", "keep-alive")>>,
     body |-> << >>,
     via |-> "livereload"]

do_GET(u) ==
    IF u = U_livereload THEN livereload_opened
    ELSE LET local_path == translate_path(u)
         IN IF is_dir(local_path)
               THEN IF ~endswith_slash(u) THEN redirect(u)
                    ELSE IF first_index(local_path) # 0
                       THEN serve_html(local_path \o <<IndexNames[first_index(local_path)]>>,
                                       FALSE)
                    ELSE super_do(u, FALSE)
            ELSE IF lower(suffix(local_path)) \in HtmlSuffixes /\ is_file(local_path)
               THEN serve_html(local_path, FALSE)
            ELSE super_do(u, FALSE)

\* self.send_error(405, "Method Not Allowed")
method_not_allowed ==
    [status |-> 405,
     headers |-> <<Header("Content-Type", "text/html;charset=utf-8"),
                   Header("Connection", "close")>>,
     body |-> << >>,
     via |-> "send_error"]

\* A faulty HEAD: dispatched as GET is.
do_HEAD_as_GET(u) == do_GET(u)

do_HEAD(u) ==
    IF u = U_livereload THEN method_not_allowed
    ELSE LET local_path == translate_path(u)
         IN IF is_dir(local_path)
               THEN IF ~endswith_slash(u) THEN redirect(u)
                    ELSE IF first_index(local_path) # 0
                       THEN serve_html(local_path \o <<IndexNames[first_index(local_path)]>>,
                                       TRUE)
                    ELSE super_do(u, TRUE)
            ELSE IF lower(suffix(local_path)) \in HtmlSuffixes /\ is_file(local_path)
               THEN serve_html(local_path, TRUE)
            ELSE super_do(u, TRUE)

\* The file a path is served from through _serve_html, or << >> when it is not.
html_file(u) ==
    LET local_path == translate_path(u)
    IN IF u = U_livereload THEN << >>
       ELSE IF is_dir(local_path)
          THEN IF endswith_slash(u) /\ first_index(local_path) # 0
                  THEN <<local_path \o <<IndexNames[first_index(local_path)]>>>>
                  ELSE << >>
       ELSE IF lower(suffix(local_path)) \in HtmlSuffixes /\ is_file(local_path)
          THEN <<local_path>>
       ELSE << >>

\* One request is served; the log keeps the last two exchanges, each with the
\* value of the clock (the number of writes to disk so far) and the file the path
\* resolved to.
Request(method, u) ==
    /\ LET e == [method |-> method, path |-> u, epoch |-> clock,
                 file |-> html_file(u),
                 resp |-> IF method = "GET" THEN do_GET(u) ELSE do_HEAD(u)]
           l == Append(log, e)
       IN log' = IF Len(l) > 2 THEN Tail(l) ELSE l
    /\ UNCHANGED <<fsVars, watcherVars, condVars, handlerVars, histVars, cwd>>

RequestPaths ==
    {U_root, U_index_html, U_sub, U_sub_slash, U_page_HTML, U_notes_txt, U_livereload}

\* Bodies served from the log: a page saved back to disk as it was received.
ServedBodies ==
    {log[i].resp.body : i \in {k \in 1..Len(log) :
        log[k].resp.via = "serve_html" /\ log[k].method = "GET"}}

InitHttp ==
    /\ fs \in HttpTrees
    /\ clock = 0
    /\ InitReload
    /\ cwd \in {"root", "other"}
    /\ log = << >>

NextHttp ==
    \/ \E d \in {HiDoc} \cup ServedBodies : WriteFile(<<N_index_html>>, d)
    \/ \E u \in RequestPaths : Request("GET", u)
    \/ \E u \in RequestPaths : Request("HEAD", u)

SpecHttp == InitHttp /\ [][NextHttp]_vars

----------------------------------------------------------------------------
(* Properties of the reload channel *)

Active(h) == hpc[h] \notin {"start", "done"}

\* Suspended inside cond.wait with nothing that will end the wait.
Blocked(h) == hpc[h] = "waiting" /\ h \in waiters /\ ~expired[h]

WaitReturns(h) == hpc[h] = "locked" /\ hpc'[h] = "write"

Written(h) == hpc[h] = "write" /\ hpc'[h] = "acquire"

Reloads(h) == {i \in 1..Len(stream[h]) : stream[h][i].kind = "reload"}

OnlyPings(h) ==
    \A i \in 1..Len(stream[h]) :
        stream[h][i].kind = IF i = 1 THEN "comment" ELSE "ping"

\* C1 (no lost wakeup): a handler never stays blocked in its wait once change_id
\* differs from its last-seen id -- the only such moment is inside bump, between the
\* increment and notify_all, with the watcher holding the lock -- and a wait that
\* returns with change_id different from the last-seen id returns "changed", never
\* a timeout.  Checked with every handler waiting concurrently.
C1_BlockedOnlyWhileCurrent ==
    \A h \in Handlers :
        (Blocked(h) /\ change_id # last_id[h]) => (wpc = "bump_notify" /\ lock = "watcher")

C1_ReturnsChanged ==
    \A h \in Handlers :
        (WaitReturns(h) /\ change_id # last_id[h]) =>
            (changed'[h] /\ payload'[h].kind = "reload")

C1_NoLostWakeup == [](C1_BlockedOnlyWhileCurrent) /\ [][C1_ReturnsChanged]_vars

\* Every handler was blocked with last-seen id N when bump raised change_id to N+1,
\* and notify_all has just woken all of them.
C1_Witness ==
    /\ wpc = "bump_return"
    /\ \A h \in Handlers :
        /\ hpc[h] = "waiting"
        /\ h \notin waiters
        /\ ~expired[h]
        /\ change_id = last_id[h] + 1

\* C2 (end-to-end delivery), in the form a finite run refutes: once the watcher has
\* polled a modification made after the client connected and has finished its bump,
\* a handler that sits blocked with last-seen id equal to change_id -- so that
\* nothing but a further modification can wake it with a change -- has written a
\* reload frame.
WatcherCaughtUp == wpc = "sleep" /\ prev = snapshot_tree(fs)

C2_ReloadDelivered ==
    \A h \in Handlers :
        (owed[h] /\ WatcherCaughtUp /\ Blocked(h) /\ change_id = last_id[h])
            => Reloads(h) # {}

\* C3 (latest value only): a wait that returns "changed" assigns last_id the value
\* change_id has at that moment, under the lock, and builds one reload frame carrying
\* it, however many bumps (gap) happened since the previous wait; a write appends
\* exactly the one frame built; and on every stream the ids of the reload frames
\* are strictly increasing.
C3_WakeTakesLatest ==
    \A h \in Handlers :
        (WaitReturns(h) /\ missed[h] >= 1) =>
            /\ lock = h
            /\ last_id'[h] = change_id
            /\ payload'[h] = ReloadFrame(change_id)
            /\ change_id = last_id[h] + missed[h]

C3_OneFramePerWait ==
    \A h \in Handlers :
        /\ Written(h) => stream'[h] = Append(stream[h], payload[h])
        /\ stream'[h] # stream[h] => (Written(h) \/ hpc[h] = "start")

C3_IdsIncrease ==
    \A h \in Handlers :
        /\ \A i, j \in Reloads(h) : i < j => stream[h][i].id < stream[h][j].id
        /\ \A i \in Reloads(h) : stream[h][i].id <= change_id
        /\ (hpc[h] = "write" /\ payload[h].kind = "reload") =>
              \A i \in Reloads(h) : stream[h][i].id < payload[h].id

C3_LatestOnly ==
    /\ [](C3_IdsIncrease)
    /\ [][C3_WakeTakesLatest /\ C3_OneFramePerWait]_vars

\* Two bumps happened between the return of one wait and the return of the next,
\* and the handler holds a single reload frame carrying the latest id.
C3_Witness ==
    \E h \in Handlers :
        /\ hpc[h] = "write"
        /\ gap[h] >= 2
        /\ Len(stream[h]) >= 2
        /\ payload[h] = ReloadFrame(change_id)

\* C4 (idle keep-alive), as amended: a wait that runs out of time with change_id
\* still equal to the last-seen id builds one ping frame and leaves last_id alone,
\* and the write appends that one frame; and as long as change_id has not been
\* raised since the handler first read its last-seen id, the stream is the initial
\* comment followed only by ping frames.
C4_ExpiryBuildsPing ==
    \A h \in Handlers :
        (WaitReturns(h) /\ expired[h] /\ change_id = last_id[h]) =>
            /\ ~changed'[h]
            /\ payload'[h] = PingFrame
            /\ last_id'[h] = last_id[h]

C4_PingWrittenOnce ==
    \A h \in Handlers :
        (Written(h) /\ payload[h].kind = "ping") =>
            stream'[h] = Append(stream[h], PingFrame)

C4_QuietStream ==
    \A h \in Handlers :
        ~bumped[h] =>
            /\ OnlyPings(h)
            /\ hpc[h] = "write" => payload[h] = PingFrame

C4_IdleKeepAlive ==
    /\ [](C4_QuietStream)
    /\ [][C4_ExpiryBuildsPing /\ C4_PingWrittenOnce]_vars

\* A stream that carried two pings, one per expired wait, and nothing else.
C4_Witness ==
    \E h \in Handlers :
        /\ ~bumped[h]
        /\ Len(stream[h]) = 3
        /\ stream[h][2] = PingFrame
        /\ stream[h][3] = PingFrame

\* C4 as first stated: with no file written after the client connected, the
\* stream holds only the comment and pings.
C4_QuietWithoutWrites == \A h \in Handlers : ~touched[h] => OnlyPings(h)

\* C5 (wire format): every frame written is well formed -- the comment is
\* ": connected" LF LF, a reload is "event: reload" LF "data: <id>" LF LF, a ping is
\* "event: ping" LF "data: 0" LF LF -- and so ends with two line feeds.
WireComment == <<":", " ", "c", "o", "n", "n", "e", "c", "t", "e", "d", LF, LF>>
WireReload(id) ==
    <<"e", "v", "e", "n", "t", ":", " ", "r", "e", "l", "o", "a", "d", LF,
      "d", "a", "t", "a", ":", " ">> \o Str(id) \o <<LF, LF>>
WirePing ==
    <<"e", "v", "e", "n", "t", ":", " ", "p", "i", "n", "g", LF,
      "d", "a", "t", "a", ":", " ", "0", LF, LF>>

EndsWithBlankLine(b) == Len(b) >= 2 /\ b[Len(b) - 1] = LF /\ b[Len(b)] = LF

C5_WireFormat ==
    \A h \in Handlers : \A i \in 1..Len(stream[h]) :
        LET f == stream[h][i] IN
        /\ EndsWithBlankLine(f.bytes)
        /\ f.kind = "comment" => f.bytes = WireComment
        /\ f.kind = "reload" => f.bytes = WireReload(f.id)
        /\ f.kind = "ping" => f.bytes = WirePing

\* C6 (change_id): it starts at 0; a step changes it only by adding exactly 1, and
\* only the watcher inside bump, holding the lock, does so; the lock is held from
\* the increment through notify_all to the return; and bump returns the new value.
C6_OnlyBumpWrites ==
    \/ change_id' = change_id
    \/ /\ change_id' = change_id + 1
       /\ wpc = "bump_inc"
       /\ lock = "watcher"
       /\ lock' = "watcher"

C6_BumpUnderLock ==
    /\ wpc \in {"bump_inc", "bump_notify", "bump_return"} => lock = "watcher"
    /\ (wpc = "sleep" /\ diffCycles > 0) => ret = change_id
    /\ change_id >= ret

C6_ChangeIdMonotone ==
    /\ change_id = 0
    /\ [](C6_BumpUnderLock)
    /\ [][C6_OnlyBumpWrites]_vars

\* Two bumps have completed, each returning the value it wrote, with handlers open.
C6_Witness ==
    /\ wpc = "sleep"
    /\ change_id = 2
    /\ ret = 2
    /\ \E h \in Handlers : Active(h)

\* C7 (batching): a poll cycle whose snapshot differs from the stored one stores
\* the new snapshot and leads to exactly one bump; a cycle whose snapshot is equal
\* changes nothing.  So between cycles the stored snapshot is the last one taken
\* and change_id counts the cycles that found a difference.
BumpsOwed == IF wpc \in {"bump_acquire", "bump_inc"} THEN 1 ELSE 0

C7_OneBumpPerChangedCycle ==
    wpc # "init" =>
        /\ prev = cur
        /\ change_id + BumpsOwed = diffCycles

\* One cycle saw both watched files changed, and change_id rose by one.
C7_Witness ==
    /\ wpc = "sleep"
    /\ \A p \in WatchPaths : Watched(p) => fs[p].mtime > 0
    /\ prev = snapshot_tree(fs)
    /\ diffCycles = 1
    /\ change_id = 1

----------------------------------------------------------------------------
(* Properties of the HTML responses *)

Logged == 1..Len(log)

\* A GET answered 200 by _serve_html.
HtmlServed(i) == log[i].method = "GET" /\ log[i].resp.via = "serve_html"

\* The bytes on disk of the file exchange i was served from, while no write to disk
\* has happened since.
OnDisk(i) == directory.files[log[i].file[1]].data

Count(needle, hay) == Cardinality(Occurrences(needle, hay))

HasHeader(r, name) == \E k \in 1..Len(r.headers) : r.headers[k][1] = name
HeaderValue(r, name) ==
    r.headers[CHOOSE k \in 1..Len(r.headers) : r.headers[k][1] = name][2]

SameResource(i, j) == log[i].path = log[j].path /\ log[i].epoch = log[j].epoch

\* Two GETs of one HTML file with no write to disk between them are answered with
\* the same status, headers and body.
C8_RepeatIdentical ==
    \A i, j \in Logged :
        HtmlServed(i) /\ HtmlServed(j) /\ SameResource(i, j) => log[i].resp = log[j].resp

\* Injecting into a served body returns it unchanged.
C8_ReinjectUnchanged ==
    \A i \in Logged : HtmlServed(i) => inject(log[i].resp.body) = log[i].resp.body

\* The marker is in every served body: once when the file holds it at most once,
\* and as often as the file holds it otherwise, the file being sent as it is.
C8_MarkerCount ==
    \A i \in Logged :
        HtmlServed(i) /\ log[i].epoch = clock =>
            /\ Count(INJECT_MARKER, log[i].resp.body) >= 1
            /\ Count(INJECT_MARKER, OnDisk(i)) <= 1
                   => Count(INJECT_MARKER, log[i].resp.body) = 1
            /\ Count(INJECT_MARKER, OnDisk(i)) > 1 => log[i].resp.body = OnDisk(i)

\* C8 (injection idempotence, as the code has it): serving an HTML file twice
\* without a write to disk gives byte-identical responses; injecting into an
\* already-injected document returns it unchanged, so the script is never inserted
\* a second time; and the marker appears exactly once in the body when the file
\* holds it at most once, a file holding it more often being served unchanged.
C8_InjectionIdempotent ==
    /\ C8_RepeatIdentical
    /\ C8_ReinjectUnchanged
    /\ C8_MarkerCount

\* A served page was saved back over index.html and then fetched twice: both
\* responses are the saved bytes, with the script in them once.
C8_Witness ==
    /\ Len(log) = 2
    /\ HtmlServed(1) /\ HtmlServed(2)
    /\ SameResource(1, 2)
    /\ log[2].epoch = clock
    /\ log[2].file = <<(<<N_index_html>>)>>
    /\ OnDisk(2) = inject(HiDoc)
    /\ log[1].resp.body = OnDisk(2)
    /\ log[2].resp.body = OnDisk(2)
    /\ Count(INJECT_SNIPPET, log[2].resp.body) = 1

\* C8 as stated: the above with the marker exactly once in every served body,
\* whatever the file holds.
C8_MarkerExactlyOnce ==
    /\ C8_RepeatIdentical
    /\ C8_ReinjectUnchanged
    /\ \A i \in Logged : HtmlServed(i) => Count(INJECT_MARKER, log[i].resp.body) = 1

\* C9 (HEAD/GET equivalence): a HEAD and a GET of the same path with no write to
\* disk between them, the path resolving to an HTML file (directly or as the index
\* of a directory with trailing slash), have the same status and headers, the
\* HEAD's Content-Length is the byte length of the GET's body after injection, and
\* the HEAD has no body; for a directory without trailing slash both answer 301
\* with the same Location.
C9_HeadMatchesGet ==
    \A i, j \in Logged :
        log[i].method = "HEAD" /\ log[j].method = "GET" /\ SameResource(i, j) =>
            /\ log[j].file # << >> =>
                /\ log[i].resp.status = log[j].resp.status
                /\ log[i].resp.headers = log[j].resp.headers
                /\ log[i].resp.body = << >>
                /\ HasHeader(log[i].resp, "Content-Length")
                /\ ParseInt(HeaderValue(log[i].resp, "Content-Length"))
                       = ByteLen(log[j].resp.body)
            /\ is_dir(translate_path(log[j].path)) /\ ~endswith_slash(log[j].path) =>
                /\ log[i].resp.status = 301
                /\ log[j].resp.status = 301
                /\ HasHeader(log[i].resp, "Location")
                /\ HasHeader(log[j].resp, "Location")
                /\ HeaderValue(log[i].resp, "Location") = HeaderValue(log[j].resp, "Location")
                /\ log[i].resp.body = << >>

\* HEAD then GET of a directory whose index the script is injected into: the HEAD
\* announced the injected length, longer than the file.
C9_Witness ==
    /\ Len(log) = 2
    /\ log[1].method = "HEAD" /\ log[2].method = "GET"
    /\ SameResource(1, 2)
    /\ log[2].epoch = clock
    /\ log[2].path = U_sub_slash
    /\ HtmlServed(2)
    /\ log[1].resp.status = 200
    /\ log[1].resp.body = << >>
    /\ log[2].resp.body # OnDisk(2)
    /\ ParseInt(HeaderValue(log[1].resp, "Content-Length")) = ByteLen(log[2].resp.body)
    /\ ByteLen(log[2].resp.body) = ByteLen(OnDisk(2)) + ByteLen(INJECT_SNIPPET)

\* C10 (end-to-end scenario): with index.html in the --root folder holding
\* `<body>Hi</body>`, GET / answers 200 with a body that contains
\* `<body>Hi</body>` immediately preceded by the injected script block, and
\* Content-Length is the byte length of that body.
C10_EndToEnd ==
    \A i \in Logged :
        /\ log[i].method = "GET"
        /\ log[i].path = U_root
        /\ log[i].epoch = clock
        /\ fs[<<N_index_html>>] = File(HiDoc)
        => /\ log[i].resp.status = 200
           /\ Contains(INJECT_SNIPPET \o HiDoc, log[i].resp.body)
           /\ HasHeader(log[i].resp, "Content-Length")
           /\ ParseInt(HeaderValue(log[i].resp, "Content-Length"))
                  = ByteLen(log[i].resp.body)

\* The exchange was for a directory of the folder served, and nothing was written
\* to disk since.
DirRequest(i) ==
    /\ log[i].epoch = clock
    /\ log[i].path # U_livereload
    /\ is_dir(translate_path(log[i].path))

\* What serving file f answers: 200 with the injected bytes (none on HEAD), or 404
\* when f cannot be read.
ServedThroughInjection(i, f) ==
    /\ log[i].file = <<f>>
    /\ IF directory.files[f].readable
          THEN /\ log[i].resp.via = "serve_html"
               /\ log[i].resp.status = 200
               /\ log[i].method = "GET" => log[i].resp.body = inject(directory.files[f].data)
          ELSE log[i].resp.status = 404

\* (1) no trailing slash: 301 to the same path plus "/", nothing served.
C11_Redirect ==
    \A i \in Logged :
        DirRequest(i) /\ ~endswith_slash(log[i].path) =>
            /\ log[i].resp.status = 301
            /\ log[i].resp.headers = <<Header("Location", log[i].path \o <<"/">>)>>
            /\ log[i].resp.body = << >>
            /\ log[i].resp.via = "redirect"

\* (2) trailing slash: index.html, else index.htm, else the listing.
C11_IndexOrder ==
    \A i \in Logged :
        DirRequest(i) /\ endswith_slash(log[i].path) =>
            LET dir == translate_path(log[i].path)
            IN IF is_file(dir \o <<N_index_html>>)
                  THEN ServedThroughInjection(i, dir \o <<N_index_html>>)
               ELSE IF is_file(dir \o <<N_index_htm>>)
                  THEN ServedThroughInjection(i, dir \o <<N_index_htm>>)
               ELSE log[i].resp.via = "listing" /\ log[i].resp.status = 200

\* A GET answered 301, then a GET of its Location: 200 with the script in the body
\* when the directory has a readable index.
C11_FollowRedirect ==
    Len(log) = 2 /\ DirRequest(1) /\ DirRequest(2)
        /\ log[1].method = "GET" /\ log[2].method = "GET"
        /\ log[1].resp.via = "redirect"
        /\ log[2].path = HeaderValue(log[1].resp, "Location")
        /\ log[2].file # << >>
        /\ directory.files[log[2].file[1]].readable
        => /\ log[2].resp.status = 200
           /\ Contains(INJECT_SNIPPET, log[2].resp.body)

\* C11 (directory resolution): a request for a directory without trailing slash is
\* answered 301 with Location the path plus "/", and no file is served; with
\* trailing slash, index.html is served through the injection path when it exists,
\* otherwise index.htm when it exists, otherwise the directory listing; so `/sub`
\* then `/sub/` gives 301 then 200 with injected content.
C11_DirectoryResolution ==
    /\ C11_Redirect
    /\ C11_IndexOrder
    /\ C11_FollowRedirect

\* GET /sub was redirected to /sub/, and GET /sub/ served sub/index.htm injected.
C11_Witness ==
    /\ Len(log) = 2
    /\ log[1].method = "GET" /\ log[1].path = U_sub
    /\ log[1].resp.status = 301
    /\ log[2].method = "GET" /\ log[2].path = U_sub_slash
    /\ log[2].path = HeaderValue(log[1].resp, "Location")
    /\ log[2].resp.status = 200
    /\ log[2].file = <<(<<N_sub, N_index_htm>>)>>
    /\ Contains(INJECT_SNIPPET, log[2].resp.body)

----------------------------------------------------------------------------
(* Properties of the snapshot *)

\* The path lies in a directory named .git or refs at some depth, or the file is
\* named .DS_Store or recording.mov.
Excluded(p) ==
    \/ \E i \in 1..(Len(p) - 1) : p[i] = N_git \/ p[i] = N_refs
    \/ p[Len(p)] = N_DS_Store
    \/ p[Len(p)] = N_recording_mov

\* A step that changes the tree only at excluded paths leaves its snapshot as it is.
C12_SnapshotBlind ==
    (\A p \in DOMAIN fs : ~Excluded(p) => fs'[p] = fs[p])
        => snapshot_tree(fs') = snapshot_tree(fs)

\* No snapshot the watcher took holds an excluded path.
C12_NothingBeneathVisited ==
    \A p \in DOMAIN cur \cup DOMAIN prev : ~Excluded(p)

\* While every file outside the exclusions is as it was when the watcher started,
\* no cycle has found a difference and bump was never called.
C12_NoBump ==
    wpc # "init" /\ polled[1] = 0 /\ (\A p \in DOMAIN fs : ~Excluded(p) => fs[p] = InitFile)
        => /\ diffCycles = 0
           /\ change_id = 0
           /\ wpc = "sleep"

\* C12 (snapshot exclusion): trees that differ only in excluded files (named
\* .DS_Store or recording.mov) or inside excluded directories (named .git or refs,
\* at any depth) have equal snapshots, nothing beneath an excluded directory is in
\* a snapshot, and a watcher that observes one tree and then the other never bumps.
C12_SnapshotExclusion ==
    /\ [](C12_NothingBeneathVisited /\ C12_NoBump)
    /\ [][C12_SnapshotBlind]_vars

\* The watcher took its first snapshot, then excluded files were written, removed
\* or created at the top and below it, and the poll that followed saw no
\* difference.
C12_Witness ==
    /\ polled = <<0, clock>>
    /\ clock = MaxClock
    /\ ~Exists(fs, <<N_sub, N_refs, N_index_html>>) \/ fs[<<N_css, N_DS_Store>>].mtime > 0
    /\ \E p \in DOMAIN fs : Excluded(p) /\ fs[p].mtime > 0
    /\ \A p \in DOMAIN fs : ~Excluded(p) => fs[p] = InitFile
    /\ wpc = "sleep"
    /\ change_id = 0

----------------------------------------------------------------------------
(* Properties of the request dispatch *)

HeadOfStream(e) == e.method = "HEAD" /\ e.path = U_livereload

\* Every HEAD of /__livereload is answered 405 with no body, in every tree and
\* working directory, and resolves to no file.
C13_Rejected ==
    \A i \in Logged :
        HeadOfStream(log[i]) =>
            /\ log[i].resp.status = 405
            /\ log[i].resp.body = << >>
            /\ log[i].resp.via = "send_error"
            /\ log[i].file = << >>

\* Only a GET of /__livereload is handed to _handle_livereload.
C13_OnlyGetStreams ==
    \A i \in Logged :
        log[i].resp.via = "livereload" =>
            log[i].method = "GET" /\ log[i].path = U_livereload

\* Serving a HEAD of /__livereload leaves the reload state, every handler in the
\* wait loop and the tree as they are.
C13_NothingTouched ==
    log' # log /\ HeadOfStream(log'[Len(log')])
        => UNCHANGED <<fsVars, watcherVars, condVars, handlerVars>>

\* C13: HEAD on /__livereload is rejected with 405; the handler returns without
\* opening an event stream, without reading or waiting on the reload state and
\* without consulting the filesystem; only GET on that path enters the wait loop.
C13_HeadNotAllowed ==
    /\ [](C13_Rejected /\ C13_OnlyGetStreams)
    /\ [][C13_NothingTouched]_vars

\* A GET opened the stream, and the HEAD that followed was refused.
C13_Witness ==
    /\ Len(log) = 2
    /\ log[1].method = "GET" /\ log[1].path = U_livereload
    /\ log[1].resp.via = "livereload"
    /\ HeadOfStream(log[2])
    /\ log[2].resp.status = 405

----------------------------------------------------------------------------
(* Properties of the reload channel: ordering, termination, locking *)

\* Files were written while the watcher ran, all of them before h's connection was
\* opened.
ChangedBeforeConnect(h) == polled[1] = 0 /\ clock > 0 /\ ~touched[h] /\ Active(h)

\* C14 (late waiters): a change on disk that completes before a handler reads its
\* initial last-seen id and first waits is observed by that handler: once the
\* watcher has seen the change and the handler has settled in its wait, the
\* handler's stream holds a reload event.
C14_LateWaiterServed ==
    \A h \in Handlers :
        (ChangedBeforeConnect(h) /\ WatcherCaughtUp /\ Blocked(h) /\ change_id = last_id[h])
            => Reloads(h) # {}

\* A handler ends only from a write (of the comment or of an event), not holding
\* the lock, and the step changes nothing of the reload state, of the watcher or of
\* any other handler.
C15_EndsOnFailedWrite ==
    \A h \in Handlers :
        hpc[h] # "done" /\ hpc'[h] = "done" =>
            /\ hpc[h] \in {"start", "write"}
            /\ lock # h
            /\ UNCHANGED <<condVars, watcherVars>>
            /\ \A g \in Handlers \ {h} :
                /\ hpc'[g] = hpc[g]
                /\ last_id'[g] = last_id[g]
                /\ changed'[g] = changed[g]
                /\ expired'[g] = expired[g]
                /\ payload'[g] = payload[g]
                /\ stream'[g] = stream[g]

\* An ended handler holds no lock and is not registered as a waiter.
C15_EndedHoldsNothing ==
    \A h \in Handlers : hpc[h] = "done" => lock # h /\ h \notin waiters

\* With one handler ended, a bump to k still reaches every other open stream: the
\* handler takes k (or a later id) as its last-seen id, or its own connection ends.
C15_StillDelivered ==
    \A g \in Handlers : \A k \in 1..MaxClock :
        ((\E h \in Handlers \ {g} : hpc[h] = "done")
            /\ Active(g) /\ hpc[g] # "read_id" /\ change_id = k /\ last_id[g] < k)
        ~> (hpc[g] = "done" \/ last_id[g] >= k)

\* C15 (termination and isolation): the /__livereload handler leaves its loop only
\* when a write to the connection fails, on the comment or on a later event; it then
\* ends without holding the lock and without changing change_id, and the watcher
\* and every other open stream go on as before: later bumps are still delivered.
C15_FailureIsolated ==
    /\ []C15_EndedHoldsNothing
    /\ [][C15_EndsOnFailedWrite]_vars
    /\ C15_StillDelivered

\* One connection has ended on a failed write of an event, and a bump made after
\* that has been written to the other stream as a reload.
C15_Witness ==
    \E h, g \in Handlers :
        /\ hpc[h] = "done"
        /\ Len(stream[h]) >= 1
        /\ Reloads(h) = {}
        /\ Active(g)
        /\ change_id = 1
        /\ Reloads(g) # {}
        /\ stream[g][Len(stream[g])].id = 1

\* C16 (watcher robustness): the watcher never terminates, whatever failure a stat
\* call meets: the file is left out, the snapshot completes, and once the watcher
\* has polled the tree as it is, its snapshot holds exactly the files whose stat
\* succeeds.
C16_WatcherSurvives ==
    /\ wpc # "dead"
    /\ wpc = "sleep" /\ polled[2] = clock =>
           DOMAIN cur = {p \in DOMAIN fs : Exists(fs, p) /\ ~Excluded(p) /\ fs[p] # SymlinkLoop}

\* C17 (lock discipline): every thread at a step that reads or writes change_id
\* holds the condition's lock: the watcher inside bump, a handler evaluating the
\* predicate or assigning last_id, and a handler about to read its initial
\* last-seen id.
C17_AllAccessLocked ==
    /\ wpc \in {"bump_inc", "bump_notify", "bump_return"} => lock = "watcher"
    /\ \A h \in Handlers : hpc[h] = "locked" => lock = h
    /\ \A h \in Handlers : hpc[h] = "read_id" => lock = h

\* A handler holds the lock exactly between taking it and leaving the `with` block:
\* not while writing to its socket, not while suspended in the wait.
C18_LockOnlyInsideWith ==
    \A h \in Handlers :
        /\ lock = h <=> hpc[h] = "locked"
        /\ hpc[h] \in {"write", "waiting"} => lock # h

\* Whoever holds the lock has a step to take that waits for nobody: a handler
\* returns from wait_for or blocks in it (releasing the lock), the watcher goes on
\* through bump.
C18_HolderNeverStalls ==
    /\ \A h \in Handlers : lock = h => ENABLED (WaitBlock(h) \/ WaitReturn(h))
    /\ lock = "watcher" => ENABLED (BumpInc \/ BumpNotify \/ BumpReturn)

\* C18 (no handler blocks another): a handler holds the lock only while checking
\* the predicate and building its payload, never while writing or flushing and
\* never while suspended in the wait; a handler blocked on a socket write does not
\* hold the lock, and the holder of the lock can always proceed, so bump and the
\* other handlers' waits are not held up by a stalled client.
C18_NoHandlerBlocksAnother ==
    /\ C18_LockOnlyInsideWith
    /\ C18_HolderNeverStalls

\* One handler is at its socket write while the watcher, inside bump, holds the
\* lock and is about to wake another handler suspended in its wait.
C18_Witness ==
    \E h, g \in Handlers :
        /\ hpc[h] = "write"
        /\ lock = "watcher"
        /\ wpc = "bump_notify"
        /\ hpc[g] = "waiting"
        /\ g \in waiters

----------------------------------------------------------------------------
(* Properties of the injection position *)

\* A closing body tag, in any mix of cases, starts at position k of d.
CloseTagAt(d, k) ==
    /\ k + 6 <= Len(d)
    /\ d[k] = "<" /\ d[k + 1] = "/"
    /\ d[k + 2] \in {"b", "B"} /\ d[k + 3] \in {"o", "O"}
    /\ d[k + 4] \in {"d", "D"} /\ d[k + 5] \in {"y", "Y"}
    /\ d[k + 6] = ">"

CloseTags(d) == {k \in 1..Len(d) : CloseTagAt(d, k)}

\* d with the script block put in front of position k; every byte of d is kept.
SplicedAt(d, k) == SubSeq(d, 1, k - 1) \o INJECT_SNIPPET \o SubSeq(d, k, Len(d))

\* C19 (injection position): for a file without the marker, the body is the file
\* with the script block immediately before the last closing body tag, matched in
\* any case, every byte of the file kept as it is; without a closing body tag, the
\* file followed by the script block; for a file with the marker, the file itself.
C19_InjectionPosition ==
    \A i \in Logged :
        HtmlServed(i) /\ log[i].epoch = clock =>
            LET d == OnDisk(i)
                body == log[i].resp.body
            IN IF Contains(INJECT_MARKER, d) THEN body = d
               ELSE IF CloseTags(d) # {}
                  THEN \E k \in CloseTags(d) :
                          /\ \A j \in CloseTags(d) : j <= k
                          /\ body = SplicedAt(d, k)
               ELSE body = d \o INJECT_SNIPPET

\* Two files were served: one with two closing tags, spliced before the second, and
\* one with upper-case tags and text after them, spliced before </BODY>.
C19_Witness ==
    /\ Len(log) = 2
    /\ HtmlServed(1) /\ HtmlServed(2)
    /\ log[2].epoch = clock /\ log[1].epoch = clock
    /\ OnDisk(1) = TwoBodiesDoc
    /\ log[1].resp.body = CloseBody \o <<"x">> \o INJECT_SNIPPET \o CloseBody
    /\ OnDisk(2) = UpperDoc
    /\ log[2].resp.body = SplicedAt(UpperDoc, 8)
    /\ log[2].resp.body[Len(INJECT_SNIPPET) + 8] = "<"
    /\ log[2].resp.body[Len(INJECT_SNIPPET) + 10] = "B"

----------------------------------------------------------------------------
(* Properties of the reload channel: no spurious reload *)

ReloadPending(h) == IF hpc[h] = "write" /\ payload[h].kind = "reload" THEN 1 ELSE 0

\* last_id never runs ahead of change_id, and an open stream carries at most as
\* many reloads (the one about to be written included) as there were bumps since
\* the handler read its initial last-seen id.
C20_ReloadsBounded ==
    \A h \in Handlers :
        /\ last_id[h] <= change_id
        /\ Active(h) => Cardinality(Reloads(h)) + ReloadPending(h) <= since[h]

\* A wait builds a reload only when a bump happened since last_id was last set.
C20_ReloadNeedsBump ==
    \A h \in Handlers :
        WaitReturns(h) /\ payload'[h].kind = "reload" => missed[h] >= 1

\* C20 (no spurious reload): each handler's last-seen id is at most change_id; a
\* handler emits a reload only if a bump occurred after it last set its last-seen
\* id; so the reloads on a stream number at most the bumps since the handler read
\* its initial last-seen id.
C20_NoSpuriousReload ==
    /\ []C20_ReloadsBounded
    /\ [][C20_ReloadNeedsBump]_vars

\* Two bumps happened while the handler was open and it wrote a single reload, for
\* the second.
C20_Witness ==
    \E h \in Handlers :
        /\ Active(h)
        /\ since[h] = 2
        /\ Cardinality(Reloads(h)) = 1
        /\ stream[h][Len(stream[h])].kind = "reload"
        /\ stream[h][Len(stream[h])].id = 2
        /\ last_id[h] = change_id

====
